---------------------------- MODULE Spec2Model ----------------------------
(***************************************************************************)
(* A model of assets/js/script.js: the page script of a static portfolio   *)
(* page.  The state is the part of the DOM the script reads and writes     *)
(* (classes, attributes, inline styles, focus), the script's closure       *)
(* variables (ticking, scrollTimeout) and the callbacks the browser holds  *)
(* for it (timers, animation frames, observers).  The page itself (which   *)
(* elements exist, their attributes and layout) is the script's input and  *)
(* is drawn in Init.                                                       *)
(*                                                                         *)
(* Strings the script computes with (href, rel, id) are sequences of       *)
(* one-character strings, so that substring, concatenation and the regular *)
(* expression test are computed as the script computes them.               *)
(***************************************************************************)
EXTENDS Naturals, Integers, Sequences, FiniteSets, TLC

(***************************************************************************)
(* Strings                                                                 *)
(***************************************************************************)
S_hero       == <<"h","e","r","o">>
S_about      == <<"a","b","o","u","t">>
S_experience == <<"e","x","p","e","r","i","e","n","c","e">>
S_skills     == <<"s","k","i","l","l","s">>
S_certs      == <<"c","e","r","t","s">>
S_contact    == <<"c","o","n","t","a","c","t">>
S_main       == <<"m","a","i","n">>
S_nope       == <<"n","o","p","e">>
S_noopener   == <<"n","o","o","p","e","n","e","r">>
S_TRUE       == <<"t","r","u","e">>
S_FALSE      == <<"f","a","l","s","e">>

\* An attribute that is absent (getAttribute returns null) or has a value.
NoAttr    == [has |-> FALSE, val |-> <<>>]
Attr(s)   == [has |-> TRUE,  val |-> s]

\* String.prototype.substring(1)
Substring1(s) == IF Len(s) = 0 THEN <<>> ELSE Tail(s)

\* the attribute selector [href^="#"]
StartsWithHash(a) == a.has /\ Len(a.val) > 0 /\ Head(a.val) = "#"

\* String(open) as setAttribute stores a boolean
BoolString(b) == IF b THEN S_TRUE ELSE S_FALSE


(***************************************************************************)
(* Bounds of the model                                                     *)
(***************************************************************************)
\* nav links on a page
MaxLinks == 2
\* programmatic timers that remove a tabindex and have not fired yet
MaxPendingTimers == 1
\* the granularity of time, in ms
TickMs == 25
\* the distance between two scroll positions, in px
ScrollStep == 300
\* tokens in the rel of an anchor
MaxTokens == 2

(***************************************************************************)
(* Program constants                                                       *)
(***************************************************************************)
\* setTimeout(updateActiveOnScroll, 50)
ScrollDelay == 50
\* setTimeout(() => { updateActiveOnScroll(); }, 100)
InitialDelay == 100
\* qs('.site-header')?.offsetHeight || 80, and rootMargin -80px
DefaultHeader == 80
\* the observer's thresholds, in percent
thresholds == <<0, 10, 25, 50, 75, 100>>
sectionIds == <<S_hero, S_about, S_experience, S_skills, S_certs, S_contact>>

(***************************************************************************)
(* The page: the document the script is loaded into                        *)
(***************************************************************************)
\* Elements that may carry an id, and the id each carries.
IdElements == {"hero", "about", "experience", "skills", "certs", "contact", "main"}
ElemId(e) ==
  CASE e = "hero"       -> S_hero
    [] e = "about"      -> S_about
    [] e = "experience" -> S_experience
    [] e = "skills"     -> S_skills
    [] e = "certs"      -> S_certs
    [] e = "contact"    -> S_contact
    [] e = "main"       -> S_main

H(id) == Attr(<<"#">> \o id)

\* href values of links: two sections, an id no element has, a bare '#', a
\* path, and no href attribute at all
Hrefs == { H(S_hero), H(S_about), H(S_nope), H(<<>>), Attr(<<"/">> \o S_about), NoAttr }

\* A page with nothing the script looks for.
EmptyPage ==
  [ hasYear   |-> FALSE,
    hasToggle |-> FALSE,
    hasList   |-> FALSE,
    links     |-> <<>>,       \* the .nav__link elements, in document order
    elems     |-> {},         \* the elements with an id
    top       |-> [e \in {} |-> 0],   \* offset of a section in the document
    height    |-> [e \in {} |-> 0],
    viewport  |-> 600,
    header    |-> 0,          \* offsetHeight of .site-header, 0 when there is none
    hasIO     |-> TRUE,       \* 'IntersectionObserver' in window
    cssSmooth |-> TRUE,       \* CSS.supports('scroll-behavior', 'smooth')
    skip      |-> [present |-> FALSE, href |-> NoAttr],
    cards     |-> {},         \* .exp-card, .feature, .skill-block, .cert-card
    parent    |-> [c \in {} |-> "none"],   \* the card a card is nested in
    panels    |-> {},         \* .section, .profile__panel, .metric, ...
    anchors   |-> <<>> ]      \* the a[target] elements: <<blank, rel>>

\* A page with a header, a menu and two sections.
NavPage ==
  [ EmptyPage EXCEPT
      !.hasYear   = TRUE,
      !.hasToggle = TRUE,
      !.hasList   = TRUE,
      !.links     = << [href |-> H(S_hero), inList |-> TRUE],
                       [href |-> H(S_about), inList |-> TRUE] >>,
      !.elems     = {"hero", "about"},
      !.top       = [e \in {"hero", "about"} |-> IF e = "hero" THEN 0 ELSE 700],
      !.height    = [e \in {"hero", "about"} |-> IF e = "hero" THEN 700 ELSE 500],
      !.header    = 60 ]

\* qs('#' + id): the element with that id; the selector '#' alone is a syntax error
SelectorError(id) == Len(id) = 0
HasElement(p, id) == \E e \in p.elems : ElemId(e) = id
ElementById(p, id) == CHOOSE e \in p.elems : ElemId(e) = id

\* sectionIds.map(id => qs(`#${id}`)).filter(Boolean)
sections(p) ==
  LET ids == SelectSeq(sectionIds, LAMBDA id : HasElement(p, id))
  IN  [i \in 1..Len(ids) |-> ElementById(p, ids[i])]

\* qsa('.nav__link[href^="#"]'), as indices into the page's nav links
links(p) == { i \in 1..Len(p.links) : StartsWithHash(p.links[i].href) }

\* qs('.site-header')?.offsetHeight || fallback
HeaderHeight(p, fallback) == IF p.header = 0 THEN fallback ELSE p.header

\* qsa('.section, .exp-card, .feature, .skill-block, .cert-card, ...')
RevealItems(p) == p.panels \cup p.cards

Max(a, b) == IF a > b THEN a ELSE b
Min(a, b) == IF a < b THEN a ELSE b
Abs(a) == IF a < 0 THEN 0 - a ELSE a

\* the scroll positions the document allows
DocHeight(p) ==
  LET S == sections(p)
  IN  IF Len(S) = 0 THEN 0 ELSE p.top[S[Len(S)]] + p.height[S[Len(S)]]
ScrollPositions(p) ==
  { y \in { k * ScrollStep : k \in 0..4 } : y = 0 \/ y + p.viewport <= DocHeight(p) }


(***************************************************************************)
(* secureExternalLinks                                                     *)
(***************************************************************************)
LowerChar(c) ==
  CASE c = "N" -> "n" [] c = "O" -> "o" [] c = "P" -> "p"
    [] c = "E" -> "e" [] c = "R" -> "r" [] OTHER -> c
Lower(s) == [i \in 1..Len(s) |-> LowerChar(s[i])]
Contains(s, t) == \E i \in 0..(Len(s) - Len(t)) : SubSeq(s, i + 1, i + Len(t)) = t

\* /noopener/i.test(a.rel)
TestNoopener(r) == Contains(Lower(r), S_noopener)

\* (a variant that overwrites: a.rel = 'noopener')
SecureRelOverwrite(r) == IF ~TestNoopener(r) THEN S_noopener ELSE r
\* the rel of one a[target="_blank"] after secureExternalLinks
SecureRel(r) ==
  IF ~TestNoopener(r)
  THEN (IF Len(r) > 0 THEN r \o <<" ">> ELSE <<>>) \o S_noopener
  ELSE r

secureExternalLinks(p, r) ==
  [a \in DOMAIN r |-> IF p.anchors[a].blank THEN SecureRel(r[a]) ELSE r[a]]

(***************************************************************************)
(* State                                                                   *)
(***************************************************************************)
VARIABLES
  page,        \* the document the script was loaded into (never changes)
  pc,          \* "loading" until DOMContentLoaded has been handled, then "ready"
  completed,   \* the steps of init that returned
  thrown,      \* the errors thrown by the listeners of the last event handled
  yearSet,     \* #year has got its text
  registered,  \* the listeners the script has registered
  menu,        \* the nav list's class 'open' and the toggle's aria-expanded
  focus,       \* the element that has the focus
  active,      \* the nav links with class 'active'
  tabindex,    \* the tabindex attribute of the elements with an id and the cards
  tabTimers,   \* pending setTimeout(() => target.removeAttribute('tabindex'), 1000)
  ticking,     \* the closure variable of updateActiveOnScroll
  rafPending,  \* requestAnimationFrame callbacks not run yet
  initTimer,   \* the setTimeout(..., 100) of setupActiveLinkObserver
  scrollTimer, \* scrollTimeout
  scrollY,     \* window.scrollY
  prev,        \* per section, what the active-link observer reported last
  style,       \* inline opacity and transform of the reveal items
  revealObs,   \* the items the reveal observer still observes
  rel,         \* the rel of each anchor
  clicks       \* per card, the click events it got during the last keydown

vars == << page, pc, completed, thrown, yearSet, registered, menu, focus, active,
           tabindex, tabTimers, ticking, rafPending, initTimer, scrollTimer,
           scrollY, prev, style, revealObs, rel, clicks >>

NoTimer  == [armed |-> FALSE, left |-> 0]
Timer(t) == [armed |-> TRUE,  left |-> t]

Focusable(p) == p.elems \cup p.cards

InitOn(pages) ==
  /\ page \in pages
  /\ pc = "loading"
  /\ completed = {}
  /\ thrown = {}
  /\ yearSet = FALSE
  /\ registered = {}
  /\ menu = [open |-> FALSE, expanded |-> S_FALSE]
  /\ focus = "none"
  /\ active \in { a \in SUBSET (1..Len(page.links)) : a \subseteq {1} }
  /\ tabindex = [e \in Focusable(page) |-> "none"]
  /\ tabTimers = [e \in page.elems |-> 0]
  /\ ticking = FALSE
  /\ rafPending = 0
  /\ initTimer = NoTimer
  /\ scrollTimer = NoTimer
  /\ scrollY = 0
  /\ prev = [e \in page.elems |-> [seen |-> FALSE, idx |-> 0, hit |-> FALSE]]
  /\ style = [e \in RevealItems(page) |-> [opacity |-> "", transform |-> ""]]
  /\ revealObs = {}
  /\ rel = [a \in 1..Len(page.anchors) |-> page.anchors[a].rel]
  /\ clicks = [c \in page.cards |-> 0]

(***************************************************************************)
(* init, the DOMContentLoaded listener                                     *)
(***************************************************************************)
\* setupNavToggle: if(!toggle || !list) return;
NavToggleReady(p) == p.hasToggle /\ p.hasList

\* setupActiveLinkObserver: if(!sections.length || !links.length) return;
ObserverSetupReached(p) == Len(sections(p)) > 0 /\ links(p) # {}

\* new IntersectionObserver(...) in setupActiveLinkObserver is a ReferenceError
\* where the browser has no IntersectionObserver; init ends there.
InitThrows(p) == ObserverSetupReached(p) /\ ~p.hasIO

\* quickReveal
quickReveal(p) ==
  IF ~p.hasIO
  THEN [e \in RevealItems(p) |-> [opacity |-> "1", transform |-> "none"]]
  ELSE [e \in RevealItems(p) |-> [opacity |-> "0", transform |-> "translateY(20px)"]]

\* The listeners registered when the script is evaluated (the smooth scroll
\* fallback) and by init.
Listeners(p) ==
     (IF ~p.cssSmooth THEN {"fallbackClick"} ELSE {})
  \cup (IF NavToggleReady(p)
        THEN {"toggleClick", "listClick", "documentClick", "documentKeydown"} ELSE {})
  \cup (IF ObserverSetupReached(p) /\ ~InitThrows(p) THEN {"scroll"} ELSE {})
  \cup (IF ~InitThrows(p) /\ p.skip.present THEN {"skipClick"} ELSE {})
  \cup (IF ~InitThrows(p) THEN {"navLinkClick", "cardKeydown"} ELSE {})

DOMContentLoaded ==
  /\ pc = "loading"
  /\ pc' = "ready"
  /\ yearSet' = page.hasYear
  /\ registered' = Listeners(page)
  /\ thrown' = IF InitThrows(page) THEN {"ReferenceError"} ELSE {}
  /\ completed' =
       IF InitThrows(page)
       THEN {"setYear", "setupNavToggle"}
       ELSE {"setYear", "setupNavToggle", "setupActiveLinkObserver", "quickReveal",
             "secureExternalLinks", "enhanceAccessibility"}
  /\ initTimer' =
       IF ObserverSetupReached(page) /\ ~InitThrows(page)
       THEN Timer(InitialDelay) ELSE NoTimer
  /\ style' = IF InitThrows(page) THEN style ELSE quickReveal(page)
  /\ revealObs' = IF InitThrows(page) \/ ~page.hasIO THEN {} ELSE RevealItems(page)
  /\ rel' = IF InitThrows(page) THEN rel ELSE secureExternalLinks(page, rel)
  /\ tabindex' =
       IF InitThrows(page) THEN tabindex
       ELSE [e \in Focusable(page) |-> IF e \in page.cards THEN "0" ELSE tabindex[e]]
  /\ UNCHANGED << page, menu, focus, active, tabTimers, ticking, rafPending,
                  scrollTimer, scrollY, prev, clicks >>


(***************************************************************************)
(* The menu: the listeners of setupNavToggle                               *)
(***************************************************************************)
Closed == [open |-> FALSE, expanded |-> S_FALSE]

\* toggle 'click': list.classList.toggle('open'), aria-expanded = String(open)
ToggleClickHandler(m) ==
  LET open == ~m.open
  IN  [open |-> open, expanded |-> BoolString(open)]

\* (a variant that removes the class and leaves aria-expanded alone)
ListClickClassOnly(m, targetIsNavLink) ==
  IF targetIsNavLink THEN [m EXCEPT !.open = FALSE] ELSE m
\* list 'click': close when the target is a .nav__link
ListClickHandler(m, targetIsNavLink) ==
  IF targetIsNavLink THEN Closed ELSE m

\* (a variant that forgets the toggle: !list.contains(e.target) alone)
ClickedOutsideList(inToggle, inList) == ~inList
\* document 'click': close when the target is outside the toggle and the list
ClickedOutside(inToggle, inList) == ~inToggle /\ ~inList
DocumentClickHandler(m, inToggle, inList) ==
  IF ClickedOutside(inToggle, inList) THEN Closed ELSE m

\* (a variant that does not look at the menu: e.key === 'Escape' alone)
EscapeAlways(m, key) == key = "Escape"
\* document 'keydown': Escape closes an open menu and focuses the toggle
EscapeCloses(m, key) == key = "Escape" /\ m.open
DocumentKeydownHandler(m, key) ==
  IF EscapeCloses(m, key) THEN Closed ELSE m

\* A listener runs only once it is registered.
On(name, m, m2) == IF name \in registered THEN m2 ELSE m

\* A click on the toggle (or inside it): the toggle's listener, then the
\* document's.
ToggleClick ==
  /\ pc = "ready"
  /\ page.hasToggle
  /\ LET m1 == On("toggleClick", menu, ToggleClickHandler(menu))
         m2 == On("documentClick", m1, DocumentClickHandler(m1, TRUE, FALSE))
     IN  menu' = m2
  /\ thrown' = {}
  /\ UNCHANGED << page, pc, completed, yearSet, registered, focus, active, tabindex,
                  tabTimers, ticking, rafPending, initTimer, scrollTimer, scrollY,
                  prev, style, revealObs, rel, clicks >>

\* A click inside the list that is not on a nav link.
ListOtherClick ==
  /\ pc = "ready"
  /\ page.hasList
  /\ LET m1 == On("listClick", menu, ListClickHandler(menu, FALSE))
         m2 == On("documentClick", m1, DocumentClickHandler(m1, FALSE, TRUE))
     IN  menu' = m2
  /\ thrown' = {}
  /\ UNCHANGED << page, pc, completed, yearSet, registered, focus, active, tabindex,
                  tabTimers, ticking, rafPending, initTimer, scrollTimer, scrollY,
                  prev, style, revealObs, rel, clicks >>

\* A click outside the toggle and the list, on nothing else the script listens to.
OutsideClick ==
  /\ pc = "ready"
  /\ menu' = On("documentClick", menu, DocumentClickHandler(menu, FALSE, FALSE))
  /\ thrown' = {}
  /\ UNCHANGED << page, pc, completed, yearSet, registered, focus, active, tabindex,
                  tabTimers, ticking, rafPending, initTimer, scrollTimer, scrollY,
                  prev, style, revealObs, rel, clicks >>

(***************************************************************************)
(* Selectors built from an href                                            *)
(***************************************************************************)
\* qs(a.getAttribute('href')): querySelector(null) looks for <null> elements
\* and finds none; '', '#' and a path are not selectors (SyntaxError).
HrefSelectorError(a) == a.has /\ ~(Len(a.val) > 1 /\ Head(a.val) = "#")
HrefSelectorHit(p, a) ==
  a.has /\ ~HrefSelectorError(a) /\ HasElement(p, Tail(a.val))

\* the smooth scroll fallback listener of an a[href^="#"]: it scrolls the
\* window, or throws
FallbackErrors(a) ==
  IF "fallbackClick" \in registered /\ StartsWithHash(a) /\ HrefSelectorError(a)
  THEN {"SyntaxError"} ELSE {}

(***************************************************************************)
(* enhanceAccessibility: nav links                                         *)
(***************************************************************************)
\* link.getAttribute('href').substring(1) throws on a link without href;
\* qs(`#${targetId}`) throws when targetId is empty
NavLinkErrors(a) ==
  IF ~a.has THEN {"TypeError"}
  ELSE IF SelectorError(Substring1(a.val)) THEN {"SyntaxError"}
  ELSE {}
NavLinkTargetFound(p, a) ==
  NavLinkErrors(a) = {} /\ HasElement(p, Substring1(a.val))

PendingTimers == LET S == DOMAIN tabTimers
                     sum[T \in SUBSET S] ==
                       IF T = {} THEN 0
                       ELSE LET e == CHOOSE x \in T : TRUE
                            IN  tabTimers[e] + sum[T \ {e}]
                 IN  sum[S]

\* (a variant that adds the class without clearing the others)
ActivateLinkNoClear(p, act, i) == act \cup {i}
\* qsa('.nav__link').forEach(l => l.classList.remove('active'));
\* link.classList.add('active')
ActivateLink(p, act, i) == (act \ (1..Len(p.links))) \cup {i}

\* A click on the i-th nav link: the link's own listeners, then the list's (for
\* a link inside the list), then the document's.
NavLinkClick(i) ==
  /\ pc = "ready"
  /\ i \in 1..Len(page.links)
  /\ LET a    == page.links[i].href
         inl  == page.links[i].inList
         own  == "navLinkClick" \in registered
         hit  == own /\ NavLinkTargetFound(page, a)
         t    == ElementById(page, Substring1(a.val))
         m1   == IF inl THEN On("listClick", menu, ListClickHandler(menu, TRUE)) ELSE menu
         m2   == On("documentClick", m1, DocumentClickHandler(m1, FALSE, inl))
     IN  /\ hit => PendingTimers < MaxPendingTimers
         /\ thrown' = FallbackErrors(a) \cup (IF own THEN NavLinkErrors(a) ELSE {})
         /\ active' = IF hit THEN ActivateLink(page, active, i) ELSE active
         /\ tabindex' = IF hit THEN [tabindex EXCEPT ![t] = "-1"] ELSE tabindex
         /\ focus' = IF hit THEN t ELSE focus
         /\ tabTimers' = IF hit THEN [tabTimers EXCEPT ![t] = @ + 1] ELSE tabTimers
         /\ menu' = m2
  /\ UNCHANGED << page, pc, completed, yearSet, registered, ticking, rafPending,
                  initTimer, scrollTimer, scrollY, prev, style, revealObs, rel,
                  clicks >>

\* setTimeout(() => target.removeAttribute('tabindex'), 1000) fires
TabindexTimeout(e) ==
  /\ e \in DOMAIN tabTimers
  /\ tabTimers[e] > 0
  /\ tabTimers' = [tabTimers EXCEPT ![e] = @ - 1]
  /\ tabindex' = [tabindex EXCEPT ![e] = "none"]
  /\ UNCHANGED << page, pc, completed, thrown, yearSet, registered, menu, focus,
                  active, ticking, rafPending, initTimer, scrollTimer, scrollY,
                  prev, style, revealObs, rel, clicks >>

(***************************************************************************)
(* enhanceAccessibility: the skip link                                     *)
(***************************************************************************)
\* A click on the skip link (outside the menu): its listeners, then the
\* document's.
SkipLinkClick ==
  /\ pc = "ready"
  /\ page.skip.present
  /\ LET a   == page.skip.href
         own == "skipClick" \in registered
         hit == own /\ HrefSelectorHit(page, a)
         t   == ElementById(page, Tail(a.val))
     IN  /\ thrown' = FallbackErrors(a)
                      \cup (IF own /\ HrefSelectorError(a) THEN {"SyntaxError"} ELSE {})
         \* target.focus() moves the focus to an element that can take it
         /\ focus' = IF hit /\ tabindex[t] # "none" THEN t ELSE focus
  /\ menu' = On("documentClick", menu, DocumentClickHandler(menu, FALSE, FALSE))
  /\ UNCHANGED << page, pc, completed, yearSet, registered, active, tabindex,
                  tabTimers, ticking, rafPending, initTimer, scrollTimer, scrollY,
                  prev, style, revealObs, rel, clicks >>

(***************************************************************************)
(* Keys                                                                    *)
(***************************************************************************)
Keys == {"Escape", "Enter", " ", "Tab"}

\* card 'keydown': if (e.key === 'Enter' || e.key === ' ') card.click()
Activates(key) == key = "Enter" \/ key = " "

\* a card and the cards it is nested in, innermost first
RECURSIVE Path(_, _)
Path(p, c) == IF c \notin p.cards THEN <<>> ELSE <<c>> \o Path(p, p.parent[c])
OnPath(p, c, x) == \E k \in 1..Len(Path(p, c)) : Path(p, c)[k] = x

\* The keydown bubbles from card c through the cards around it; the listener of
\* each calls click() on its own card, and that click bubbles in its turn.
ClicksReceived(p, c, key, x) ==
  IF "cardKeydown" \in registered /\ Activates(key)
  THEN Cardinality({ k \in 1..Len(Path(p, c)) : OnPath(p, Path(p, c)[k], x) })
  ELSE 0

\* A keydown whose target is card c: the cards' listeners, the clicks they
\* dispatch (which reach the document's click listener), then the document's
\* keydown listener.
CardKeydown(c, key) ==
  /\ pc = "ready"
  /\ c \in page.cards
  /\ clicks' = [x \in page.cards |-> ClicksReceived(page, c, key, x)]
  /\ LET m1 == IF ClicksReceived(page, c, key, c) > 0
               THEN On("documentClick", menu, DocumentClickHandler(menu, FALSE, FALSE))
               ELSE menu
         m2 == On("documentKeydown", m1, DocumentKeydownHandler(m1, key))
     IN  /\ menu' = m2
         /\ focus' = IF "documentKeydown" \in registered /\ EscapeCloses(m1, key)
                     THEN "toggle" ELSE focus
  /\ thrown' = {}
  /\ UNCHANGED << page, pc, completed, yearSet, registered, active, tabindex,
                  tabTimers, ticking, rafPending, initTimer, scrollTimer, scrollY,
                  prev, style, revealObs, rel >>

\* A keydown anywhere else.
Keydown(key) ==
  /\ pc = "ready"
  /\ menu' = On("documentKeydown", menu, DocumentKeydownHandler(menu, key))
  /\ focus' = IF "documentKeydown" \in registered /\ EscapeCloses(menu, key)
              THEN "toggle" ELSE focus
  /\ thrown' = {}
  /\ UNCHANGED << page, pc, completed, yearSet, registered, active, tabindex,
                  tabTimers, ticking, rafPending, initTimer, scrollTimer, scrollY,
                  prev, style, revealObs, rel, clicks >>


(***************************************************************************)
(* setupActiveLinkObserver: the active link                                *)
(***************************************************************************)
\* qs(`.nav__link[href="#${sectionId}"]`): the first nav link with that href
LinksTo(p, id) == { i \in 1..Len(p.links) : p.links[i].href = H(id) }
FirstOf(S) == CHOOSE i \in S : \A j \in S : i <= j

\* clearActiveStates(): links.forEach(link => link.classList.remove('active'))
clearActiveStates(p, act) == act \ links(p)

setActiveSection(p, act, id) ==
  clearActiveStates(p, act)
    \cup (IF LinksTo(p, id) # {} THEN {FirstOf(LinksTo(p, id))} ELSE {})

(***************************************************************************)
(* The browser's IntersectionObserver for                                  *)
(*   { rootMargin: '-80px 0px -50% 0px', threshold: [0, .1, .25, .5, .75, 1] } *)
(***************************************************************************)
RootTop(p)    == DefaultHeader
RootBottom(p) == p.viewport - (p.viewport * 50) \div 100

\* section.getBoundingClientRect().top
RectTop(p, y, e) == p.top[e] - y

Entry(p, y, e) ==
  LET top    == RectTop(p, y, e)
      bottom == top + p.height[e]
      lo     == Max(top, RootTop(p))
      hi     == Min(bottom, RootBottom(p))
  IN  [ target         |-> e,
        isIntersecting |-> hi >= lo,       \* edge-adjacent counts
        num            |-> Max(0, hi - lo),   \* intersectionRatio = num / den
        den            |-> p.height[e] ]

\* the number of thresholds the ratio has reached
ThresholdIndex(en) ==
  Cardinality({ k \in 1..Len(thresholds) : thresholds[k] * en.den <= 100 * en.num })

Reported(en) == [seen |-> TRUE, idx |-> ThresholdIndex(en), hit |-> en.isIntersecting]

\* The entries queued for the callback: the observed sections whose threshold
\* index or isIntersecting differs from what was reported last.
Batch(p, y, pr) ==
  LET all == [i \in 1..Len(sections(p)) |-> Entry(p, y, sections(p)[i])]
  IN  SelectSeq(all, LAMBDA en : pr[en.target] # Reported(en))

(***************************************************************************)
(* The observer's callback                                                 *)
(***************************************************************************)
\* b.intersectionRatio - a.intersectionRatio < 0
RatioGreater(a, b) == a.num * b.den > b.num * a.den

\* entries.filter(entry => entry.isIntersecting)
\*        .sort((a, b) => b.intersectionRatio - a.intersectionRatio)[0]
\* (Array.prototype.sort is stable)
visibleSections(entries) == SelectSeq(entries, LAMBDA en : en.isIntersecting)
mostVisible(entries) ==
  LET v == visibleSections(entries)
      k == CHOOSE k \in 1..Len(v) :
             /\ \A j \in 1..Len(v) : ~RatioGreater(v[j], v[k])
             /\ \A j \in 1..(k - 1) : RatioGreater(v[k], v[j])
  IN  v[k]

\* the fallback of the callback: the last section with
\* scrollY >= sectionTop - 100, or 'hero'
RECURSIVE currentSection(_, _, _, _)
currentSection(p, y, k, cur) ==
  IF k > Len(sections(p)) THEN cur
  ELSE LET e          == sections(p)[k]
           sectionTop == RectTop(p, y, e) + y - HeaderHeight(p, DefaultHeader)
       IN  currentSection(p, y, k + 1,
                          IF y >= sectionTop - 100 THEN ElemId(e) ELSE cur)

ObserverCallbackSection(p, y, entries) ==
  IF Len(visibleSections(entries)) > 0
  THEN ElemId(mostVisible(entries).target)
  ELSE currentSection(p, y, 1, S_hero)

\* The observer delivers the queued entries.
ObserverCallback ==
  /\ pc = "ready"
  /\ "scroll" \in registered
  /\ LET entries == Batch(page, scrollY, prev)
     IN  /\ Len(entries) > 0
         /\ active' = setActiveSection(page, active,
                                       ObserverCallbackSection(page, scrollY, entries))
         /\ prev' = [e \in DOMAIN prev |->
                       IF \E k \in 1..Len(entries) : entries[k].target = e
                       THEN Reported(Entry(page, scrollY, e)) ELSE prev[e]]
  /\ thrown' = {}
  /\ UNCHANGED << page, pc, completed, yearSet, registered, menu, focus, tabindex,
                  tabTimers, ticking, rafPending, initTimer, scrollTimer, scrollY,
                  style, revealObs, rel, clicks >>

(***************************************************************************)
(* updateActiveOnScroll, the scroll listener and the timers                *)
(***************************************************************************)
\* the body of the animation frame callback: the section nearest to the line
\* below the header among those with rect.top <= headerHeight + 100, or 'hero'
RECURSIVE nearestSection(_, _, _, _)
nearestSection(p, y, k, best) ==
  IF k > Len(sections(p)) THEN best.id
  ELSE LET e            == sections(p)[k]
           headerHeight == HeaderHeight(p, DefaultHeader)
           sectionTop   == RectTop(p, y, e) + y
           distance     == Abs(y + headerHeight + 50 - sectionTop)
       IN  nearestSection(p, y, k + 1,
             IF (best.infinite \/ distance < best.min)
                /\ RectTop(p, y, e) <= headerHeight + 100
             THEN [id |-> ElemId(e), infinite |-> FALSE, min |-> distance]
             ELSE best)
activeSection(p, y) ==
  nearestSection(p, y, 1, [id |-> S_hero, infinite |-> TRUE, min |-> 0])

\* (a variant without the guard)
SchedulesAlways(tk) == TRUE
\* if (!ticking) { requestAnimationFrame(...); ticking = true; }
Schedules(tk) == ~tk
updateActiveOnScroll ==
  /\ rafPending' = IF Schedules(ticking) THEN rafPending + 1 ELSE rafPending
  /\ ticking' = (IF Schedules(ticking) THEN TRUE ELSE ticking)

\* A scroll event: clearTimeout(scrollTimeout); scrollTimeout = setTimeout(..., 50)
Scroll(y) ==
  /\ pc = "ready"
  /\ y \in ScrollPositions(page)
  /\ y # scrollY
  /\ scrollY' = y
  /\ scrollTimer' = IF "scroll" \in registered THEN Timer(ScrollDelay) ELSE scrollTimer
  /\ thrown' = {}
  /\ UNCHANGED << page, pc, completed, yearSet, registered, menu, focus, active,
                  tabindex, tabTimers, ticking, rafPending, initTimer, prev, style,
                  revealObs, rel, clicks >>

\* TickMs of time pass.
Elapse(t) == IF t.armed THEN Timer(Max(0, t.left - TickMs)) ELSE t
Tick ==
  /\ pc = "ready"
  /\ (initTimer.armed /\ initTimer.left > 0) \/ (scrollTimer.armed /\ scrollTimer.left > 0)
  /\ initTimer' = Elapse(initTimer)
  /\ scrollTimer' = Elapse(scrollTimer)
  /\ UNCHANGED << page, pc, completed, thrown, yearSet, registered, menu, focus,
                  active, tabindex, tabTimers, ticking, rafPending, scrollY, prev,
                  style, revealObs, rel, clicks >>

Due(t) == t.armed /\ t.left = 0

\* setTimeout(() => { updateActiveOnScroll(); }, 100) fires
InitialTimeout ==
  /\ Due(initTimer)
  /\ initTimer' = NoTimer
  /\ updateActiveOnScroll
  /\ thrown' = {}
  /\ UNCHANGED << page, pc, completed, yearSet, registered, menu, focus, active,
                  tabindex, tabTimers, scrollTimer, scrollY, prev, style, revealObs,
                  rel, clicks >>

\* scrollTimeout fires
ScrollTimeout ==
  /\ Due(scrollTimer)
  /\ scrollTimer' = NoTimer
  /\ updateActiveOnScroll
  /\ thrown' = {}
  /\ UNCHANGED << page, pc, completed, yearSet, registered, menu, focus, active,
                  tabindex, tabTimers, initTimer, scrollY, prev, style, revealObs,
                  rel, clicks >>

\* The browser runs a requestAnimationFrame callback.
AnimationFrame ==
  /\ rafPending > 0
  /\ rafPending' = rafPending - 1
  /\ active' = setActiveSection(page, active, activeSection(page, scrollY))
  /\ ticking' = FALSE
  /\ thrown' = {}
  /\ UNCHANGED << page, pc, completed, yearSet, registered, menu, focus, tabindex,
                  tabTimers, initTimer, scrollTimer, scrollY, prev, style, revealObs,
                  rel, clicks >>

(***************************************************************************)
(* quickReveal: the reveal observer's callback                             *)
(***************************************************************************)
\* The observer exists once quickReveal has run in a browser that has
\* IntersectionObserver.
RevealObserverExists == "quickReveal" \in completed /\ page.hasIO

\* (a variant whose callback hides the target of a non-intersecting entry again)
RevealCallbackHides(hits, misses) ==
  /\ pc = "ready"
  /\ RevealObserverExists
  /\ hits \cup misses # {}
  /\ style' = [e \in DOMAIN style |->
                 IF e \in hits THEN [opacity |-> "1", transform |-> "translateY(0)"]
                 ELSE IF e \in misses
                 THEN [opacity |-> "0", transform |-> "translateY(20px)"]
                 ELSE style[e]]
  /\ revealObs' = revealObs \ hits
  /\ thrown' = {}
  /\ UNCHANGED << page, pc, completed, yearSet, registered, menu, focus, active,
                  tabindex, tabTimers, ticking, rafPending, initTimer, scrollTimer,
                  scrollY, prev, rel, clicks >>

\* entries.forEach: an intersecting entry reveals its target and unobserves it;
\* a non-intersecting entry does nothing.  hits are the targets with an
\* intersecting entry in the batch, misses those with a non-intersecting one
\* (a target can have both, and entries queued for a target that has been
\* revealed meanwhile are let through: the callback does not look at that).
RevealCallback(hits, misses) ==
  /\ pc = "ready"
  /\ RevealObserverExists
  /\ hits \cup misses # {}
  /\ style' = [e \in DOMAIN style |->
                 IF e \in hits THEN [opacity |-> "1", transform |-> "translateY(0)"]
                 ELSE style[e]]
  /\ revealObs' = revealObs \ hits
  /\ thrown' = {}
  /\ UNCHANGED << page, pc, completed, yearSet, registered, menu, focus, active,
                  tabindex, tabTimers, ticking, rafPending, initTimer, scrollTimer,
                  scrollY, prev, rel, clicks >>

(***************************************************************************)
(* Specification                                                           *)
(***************************************************************************)
\* The nav links a page may have, all inside the list.  Pages that differ only
\* in the order of links with different hrefs behave alike, so the links are
\* taken in one order of their hrefs.
HrefList == << H(S_hero), H(S_about), H(S_nope), H(<<>>), Attr(<<"/">> \o S_about), NoAttr >>
LinkSeqs ==
  { [i \in 1..n |-> [href |-> HrefList[f[i]], inList |-> TRUE]]
      : <<n, f>> \in { nf \in UNION { {n} \X [1..n -> 1..Len(HrefList)] : n \in 0..MaxLinks }
                         : \A i, j \in 1..nf[1] : i <= j => nf[2][i] <= nf[2][j] } }

\* pages that differ in their nav links; the last two have a link outside the
\* list (a footer link)
NavPages ==
  { [NavPage EXCEPT !.links = ls] : ls \in LinkSeqs }
    \cup { [NavPage EXCEPT !.links = ls \o << [href |-> H(S_about), inList |-> FALSE] >>]
             : ls \in { <<>>, << [href |-> H(S_hero), inList |-> TRUE] >> } }

\* pages that lack what the script looks for
MissingPages ==
  { [NavPage EXCEPT !.hasToggle = t, !.hasList = l, !.hasYear = FALSE]
      : t, l \in BOOLEAN }
    \cup { [NavPage EXCEPT !.elems = {}],
           [NavPage EXCEPT !.header = 0],
           [NavPage EXCEPT !.hasIO = FALSE],
           [NavPage EXCEPT !.hasIO = FALSE, !.panels = {"panel1"}],
           [NavPage EXCEPT !.hasIO = FALSE, !.links = <<>>, !.panels = {"panel1"}],
           [EmptyPage EXCEPT !.hasIO = FALSE, !.panels = {"panel1", "panel2"}],
           [NavPage EXCEPT !.cssSmooth = FALSE],
           [NavPage EXCEPT !.cssSmooth = FALSE,
                           !.links = << [href |-> H(<<>>), inList |-> TRUE] >>] }

\* pages with a skip link
SkipPages ==
  { [EmptyPage EXCEPT !.hasToggle = TRUE, !.hasList = TRUE, !.elems = {"main"},
                      !.cssSmooth = css,
                      !.skip = [present |-> TRUE, href |-> h]]
      : h \in Hrefs \cup {H(S_main)}, css \in BOOLEAN }

\* pages with cards: one card, two cards side by side, a card inside a card
CardPages ==
  { [EmptyPage EXCEPT !.hasToggle = TRUE, !.hasList = TRUE,
                      !.cards = DOMAIN par, !.parent = par]
      : par \in { [c \in {"card1"} |-> "none"],
                  [c \in {"card1", "card2"} |-> "none"],
                  [c \in {"card1", "card2"} |-> IF c = "card2" THEN "card1" ELSE "none"] } }

\* pages with one anchor
S_noreferrer == <<"n","o","r","e","f","e","r","r","e","r">>
S_nofollow   == <<"n","o","f","o","l","l","o","w">>
S_NoOpener   == <<"N","o","O","p","e","n","e","r">>
RelTokens == { S_noopener, S_NoOpener, S_noreferrer, S_nofollow }
RECURSIVE Join(_)
Join(ts) ==
  IF Len(ts) = 0 THEN <<>>
  ELSE IF Len(ts) = 1 THEN ts[1]
  ELSE ts[1] \o <<" ">> \o Join(Tail(ts))
Rels == { Join(ts) : ts \in UNION { [1..n -> RelTokens] : n \in 0..MaxTokens } }
RelPages ==
  { [EmptyPage EXCEPT !.anchors = << [blank |-> b, rel |-> r] >>]
      : b \in BOOLEAN, r \in Rels }

\* a page with one of everything
FullPage ==
  [ EmptyPage EXCEPT
      !.hasYear   = TRUE,
      !.hasToggle = TRUE,
      !.hasList   = TRUE,
      !.links     = << [href |-> H(S_hero), inList |-> TRUE] >>,
      !.elems     = {"hero"},
      !.top       = [e \in {"hero"} |-> 0],
      !.height    = [e \in {"hero"} |-> 1200],
      !.header    = 60,
      !.skip      = [present |-> TRUE, href |-> H(S_hero)],
      !.cards     = {"card1"},
      !.parent    = [c \in {"card1"} |-> "none"],
      !.anchors   = << [blank |-> TRUE, rel |-> S_noreferrer] >> ]

\* a page whose first section is shorter: scrolling by one step brings the
\* second section into the observer's root while the first stays in it
LayoutPages ==
  { [NavPage EXCEPT
       !.top    = [e \in {"hero", "about"} |-> IF e = "hero" THEN 0 ELSE 560],
       !.height = [e \in {"hero", "about"} |-> IF e = "hero" THEN 560 ELSE 640]] }

Pages ==
  NavPages \cup MissingPages \cup SkipPages \cup CardPages \cup RelPages
    \cup LayoutPages

Init == InitOn(Pages)

Next ==
  \/ DOMContentLoaded
  \/ ToggleClick
  \/ ListOtherClick
  \/ OutsideClick
  \/ \E i \in 1..MaxLinks : NavLinkClick(i)
  \/ \E e \in IdElements : TabindexTimeout(e)
  \/ SkipLinkClick
  \/ \E c \in page.cards, key \in Keys : CardKeydown(c, key)
  \/ \E key \in Keys : Keydown(key)
  \/ ObserverCallback
  \/ \E y \in ScrollPositions(page) : Scroll(y)
  \/ Tick
  \/ InitialTimeout
  \/ ScrollTimeout
  \/ AnimationFrame
  \/ \E hits, misses \in SUBSET RevealItems(page) : RevealCallback(hits, misses)

Spec == Init /\ [][Next]_vars


\* The DOMContentLoaded event is delivered and time passes; a timer that is due
\* again and again fires (strong fairness: events that arrive while it is due
\* do not starve it), and so does a pending animation frame.
Fairness ==
  /\ WF_vars(DOMContentLoaded)
  /\ WF_vars(Tick)
  /\ SF_vars(InitialTimeout)
  /\ SF_vars(ScrollTimeout)
  /\ SF_vars(AnimationFrame)

FairSpec == InitOn({FullPage}) /\ [][Next]_vars /\ Fairness

(***************************************************************************)
(* Properties                                                              *)
(***************************************************************************)

\* C1: at most one nav link carries the class 'active' at any time, whatever
\* nav links the page has (hrefs that do not start with '#', equal hrefs).
C1_AtMostOneActive == Cardinality(active) <= 1

\* C2: a listener that finds no element or attribute to work on ends without
\* throwing: once init has returned, no event makes a listener throw.
C2_ListenersNeverThrow ==
  (pc = "ready" /\ "enhanceAccessibility" \in completed) => thrown = {}

\* C3: one click on the toggle negates the menu state (the document's click
\* listener, reached by the same click, does not undo it), so two clicks in a
\* row restore it.
C3_ToggleNegates ==
  [][ (ToggleClick /\ "toggleClick" \in registered) => menu'.open = ~menu.open ]_vars
C3_Witness ==
  pc = "ready" /\ menu.open /\ {"toggleClick", "documentClick"} \subseteq registered

\* C4, as stated: after secureExternalLinks every anchor with target="_blank"
\* has a rel that contains the string 'noopener'.
C4_ContainsLiteral ==
  "secureExternalLinks" \in completed =>
    \A a \in DOMAIN rel : page.anchors[a].blank => Contains(rel[a], S_noopener)

\* the tokens of a rel: its maximal runs of characters other than the space
RECURSIVE Tokens(_, _)
Tokens(r, cur) ==
  IF Len(r) = 0 THEN (IF Len(cur) = 0 THEN <<>> ELSE <<cur>>)
  ELSE IF Head(r) = " "
       THEN (IF Len(cur) = 0 THEN <<>> ELSE <<cur>>) \o Tokens(Tail(r), <<>>)
       ELSE Tokens(Tail(r), Append(cur, Head(r)))
IsPrefix(s, t) == Len(s) <= Len(t) /\ SubSeq(t, 1, Len(s)) = s

\* C4, amended: after secureExternalLinks every anchor with target="_blank"
\* has a rel that contains 'noopener' in some letter case, the tokens it had
\* before are still there in the same order, and a second run would change no
\* rel.
C4_Hardened ==
  "secureExternalLinks" \in completed =>
    \A a \in DOMAIN rel :
      /\ page.anchors[a].blank => Contains(Lower(rel[a]), S_noopener)
      /\ IsPrefix(Tokens(page.anchors[a].rel, <<>>), Tokens(rel[a], <<>>))
      /\ secureExternalLinks(page, rel)[a] = rel[a]
C4_Witness ==
  /\ "secureExternalLinks" \in completed
  /\ \E a \in DOMAIN rel :
       /\ page.anchors[a].blank
       /\ Len(Tokens(page.anchors[a].rel, <<>>)) = MaxTokens
       /\ rel[a] # page.anchors[a].rel

\* C5: a keydown on a card makes no card receive more than one click, also
\* when the card is nested inside another card.
C5_OneClickPerKeydown == \A c \in DOMAIN clicks : clicks[c] <= 1

\* C6: a click on a nav link inside the list, a click outside the toggle and
\* the list, and Escape while the menu is open each leave the menu closed and
\* aria-expanded 'false'; Escape moves the focus to the toggle; Escape while
\* the menu is closed changes nothing.  (Each line reads "the step ends as
\* said, or it is not such an event".)
C6_CloseEvents ==
  [][ /\ menu' = Closed
         \/ ~ \/ \E i \in 1..Len(page.links) : "listClick" \in registered /\ NavLinkClick(i)
              \/ "documentClick" \in registered /\ (OutsideClick \/ SkipLinkClick)
      /\ (menu' = Closed /\ focus' = "toggle")
         \/ ~ /\ "documentKeydown" \in registered /\ menu.open
              /\ Keydown("Escape") \/ \E c \in page.cards : CardKeydown(c, "Escape")
      /\ (menu' = menu /\ focus' = focus)
         \/ ~ /\ ~menu.open
              /\ Keydown("Escape") \/ \E c \in page.cards : CardKeydown(c, "Escape")
    ]_vars
C6_Witness ==
  pc = "ready" /\ menu = Closed /\ focus = "toggle" /\ Len(page.links) > 0

\* C7: aria-expanded is 'true' exactly when the list has the class 'open'.
C7_AriaMirrorsOpen == (menu.expanded = S_TRUE) <=> menu.open
C7_Witness ==
  pc = "ready" /\ menu.open /\ menu.expanded = S_TRUE /\ focus = "toggle"

\* C8: without IntersectionObserver init still runs to its end: every reveal
\* item is shown and secureExternalLinks and enhanceAccessibility have run.
C8_InitCompletesWithoutIO ==
  (pc = "ready" /\ ~page.hasIO) =>
    /\ \A e \in DOMAIN style : style[e] = [opacity |-> "1", transform |-> "none"]
    /\ {"secureExternalLinks", "enhanceAccessibility"} \subseteq completed

\* C9: every scroll event is eventually followed by a run of
\* updateActiveOnScroll (its timer fires), also while scroll events keep coming.
C9_ScrollEventuallyHandled == scrollTimer.armed ~> ~scrollTimer.armed

\* C10: ticking is true exactly when one animation frame callback is pending,
\* and never more than one is pending.
C10_TickingGuard == (ticking <=> rafPending = 1) /\ rafPending <= 1
C10_Witness == ticking /\ rafPending = 1 /\ Due(scrollTimer)


\* the section a nav link set is pointing at: the hash links with class
\* 'active' are exactly the first link to section e (none if e has no link)
ActiveIs(p, act, e) ==
  act \cap links(p) =
    (IF LinksTo(p, ElemId(e)) # {} THEN {FirstOf(LinksTo(p, ElemId(e)))} ELSE {})

\* e has the greatest ratio among the intersecting entries
Greatest(entries, e) ==
  /\ \E k \in 1..Len(entries) : entries[k].target = e /\ entries[k].isIntersecting
  /\ \A k, j \in 1..Len(entries) :
       (entries[k].target = e /\ entries[j].isIntersecting)
         => ~RatioGreater(entries[j], entries[k])

\* what the observer would report for every observed section now
AllEntries(p, y) == [i \in 1..Len(sections(p)) |-> Entry(p, y, sections(p)[i])]

\* C11: when a batch has an intersecting entry, the callback activates the link
\* of the section with the greatest ratio among ALL observed sections that
\* intersect now, not only among those in the batch.
C11_MostVisibleOfAll ==
  [][ (\E e \in DOMAIN page.top : ActiveIs(page, active', e)
                                    /\ Greatest(AllEntries(page, scrollY), e))
      \/ ~ /\ Len(visibleSections(Batch(page, scrollY, prev))) > 0
           /\ ObserverCallback
    ]_vars

\* (the part of C11 that holds: the greatest ratio among the entries of the batch)
C11_MostVisibleOfBatch ==
  [][ (\E e \in DOMAIN page.top : ActiveIs(page, active', e)
                                    /\ Greatest(Batch(page, scrollY, prev), e))
      \/ ~ /\ Len(visibleSections(Batch(page, scrollY, prev))) > 0
           /\ ObserverCallback
    ]_vars


\* C12: when the click listener of a nav link returns, a link whose href is '#'
\* plus the id of an existing element is the only nav link with class 'active';
\* a click on a link whose target does not exist (no href, no such element)
\* leaves the active links as they were.
C12_ClickActivates ==
  [][ \A i \in 1..Len(page.links) :
        LET a == page.links[i].href
        IN  (IF StartsWithHash(a) /\ HasElement(page, Tail(a.val))
             THEN active' = {i}
             ELSE IF ~a.has \/ ~HasElement(page, Substring1(a.val))
             THEN active' = active
             ELSE TRUE)
            \/ ~("navLinkClick" \in registered /\ NavLinkClick(i))
    ]_vars
C12_Witness ==
  /\ pc = "ready"
  /\ Len(page.links) = 2
  /\ page.links[1].href = H(S_hero)
  /\ page.links[2].href = H(S_about)
  /\ active = {2}
  /\ focus = "about"
  /\ tabindex["about"] = "-1"
  /\ ~prev["hero"].seen


Hidden(st, e) == st[e] = [opacity |-> "0", transform |-> "translateY(20px)"]
Shown(st, e) == st[e] = [opacity |-> "1", transform |-> "translateY(0)"]

\* C13: with IntersectionObserver available, quickReveal leaves every reveal
\* item hidden (opacity 0, translateY(20px)) and observed; an intersecting
\* entry shows its target (opacity 1, translateY(0)) and unobserves it; a shown
\* item stays shown in every later step, whatever entries the callback gets;
\* and a hidden item stops being hidden only by an intersecting entry of its
\* own, so an item that never intersects stays hidden.
C13_RevealOnce ==
  [][ page.hasIO =>
        /\ ("quickReveal" \in completed' /\ "quickReveal" \notin completed)
             => \A e \in RevealItems(page) : Hidden(style', e) /\ e \in revealObs'
        /\ \A e \in RevealItems(page) :
             /\ Shown(style, e) => Shown(style', e)
             /\ (Hidden(style, e) /\ ~Hidden(style', e))
                  => /\ Shown(style', e)
                     /\ \E hits, misses \in SUBSET RevealItems(page) :
                          e \in hits /\ RevealCallback(hits, misses)
             /\ \A hits, misses \in SUBSET RevealItems(page) :
                  (Shown(style', e) /\ e \notin revealObs')
                    \/ ~(e \in hits /\ RevealCallback(hits, misses))
             /\ "quickReveal" \in completed'
                  => \/ Hidden(style', e) /\ e \in revealObs'
                     \/ Shown(style', e) /\ e \notin revealObs'
    ]_vars
C13_Witness ==
  /\ pc = "ready"
  /\ page.hasIO
  /\ \E e, f \in RevealItems(page) :
       /\ Shown(style, e) /\ e \notin revealObs
       /\ Hidden(style, f) /\ f \in revealObs

=============================================================================
